---- MODULE Spec2Model ----
(***************************************************************************)
(* Seat booking under concurrency: the idempotency coordinator             *)
(* (IdempotencyService.checkOrCreate), the Redlock lock manager            *)
(* (RedlockService), the single-node lock (RedisLockService), the          *)
(* seat/booking transaction (BookingService.createBooking), the hold       *)
(* (SeatService.holdSeat) and the three background reapers, over a         *)
(* read-committed store and a set of cache nodes.                          *)
(*                                                                         *)
(* Time is kept as distances to "now": every timestamp the code stores is  *)
(* modelled by the number of ticks until (positive) or since (negative) it *)
(* is reached, and Tick moves all of them by one.  An optional value       *)
(* (a nullable column, an absent cache key, an unset local) is a set with  *)
(* zero or one element.                                                    *)
(***************************************************************************)
EXTENDS Integers, FiniteSets, Sequences, TLC

ProcOrder == <<"p1", "p2", "p3">>
UserOrder == <<"u1", "u2">>
KeyOrder  == <<"k1", "k2">>

Range(f) == {f[i] : i \in DOMAIN f}

Procs == Range(ProcOrder)
Seats == {"s1"}
Users == Range(UserOrder)
Keys  == Range(KeyOrder)
Nodes == {1, 2, 3}
Sweepers == {"r1", "r2"}

\* Names that differ only in their spelling are interchangeable: a name may be
\* taken once all names before it are in use.
Allowed(order, used) ==
  {order[i] : i \in {j \in DOMAIN order : \A h \in 1..(j - 1) : order[h] \in used}}

\* Bound of the model: the number of calls (reserve, hold, withLock) started.
MaxCalls == 2

\* Configuration, in ticks (envNumber defaults are milliseconds).
LockTtl     == 2
HoldTtl     == 1
IdemTtl     == 1
RetryCount  == 2
RetryDelay  == 1
DriftFactorPct == 1

\* The node RedisLockService talks to (REDIS_URL).
HoldNode == 1

Max(a, b) == IF a >= b THEN a ELSE b
Min(a, b) == IF a <= b THEN a ELSE b

\* The element of a one-element set.
The(S) == CHOOSE x \in S : TRUE

VARIABLES
  clients,    \* RedlockService.clients: the cache nodes of the Redlock quorum
  down,       \* cache nodes whose operations fail
  redis,      \* redis[n][s]: the entry of key seat:s on node n, {} or {[val, ttl]}
  inflight,   \* cache commands sent and not yet executed: [op, node, seat, tok]
  seats,      \* committed Seat rows
  bookings,   \* committed Booking rows
  idem,       \* committed IdempotencyRecord rows: idem[k] is {} or {record}
  rowLock,    \* rowLock[s]: the transaction holding the row lock of seat s
  pc,         \* where each process stands in its call
  req,        \* the call each process is serving
  loc,        \* the locals of that call
  calls,      \* number of calls started so far
  workCount,  \* workCount[k]: invocations of work under key k since k's record was last reaped
  firstResp,  \* firstResp[k]: the HTTP body of the first successful reserve with key k
  reaped,     \* the keys whose record cleanupExpired has deleted
  sweep,      \* sweep[r]: where a run of expireBookings stands, and what it has written
  extRun,     \* a call of extendLock on its own: its replies so far and its result
  hist        \* the finished calls

vars == <<clients, down, redis, inflight, seats, bookings, idem, rowLock,
          pc, req, loc, calls, workCount, firstResp, reaped, sweep, extRun, hist>>

----------------------------------------------------------------------------
\* Pure functions

\* Half of the nodes taken for a majority.
QuorumHalf(cl) == Cardinality(cl) \div 2

\* RedlockService constructor: quorum = floor(N/2) + 1.
Quorum(cl) == (Cardinality(cl) \div 2) + 1

\* Math.floor(ttlMs * driftFactor)
Drift(ttl) == (ttl * DriftFactorPct) \div 100

\* createBooking: extendIntervalMs = Math.floor(lockTtlMs * 0.6)
ExtendInterval == (LockTtl * 6) \div 10

\* IdempotencyService.hashRequest: sha256 of the JSON of {seatId, userId}.
hashRequest(seat, user) == <<"sha256", seat, user>>

\* JSON.stringify of a booking row: a text, in which a Date is its ISO string.
JsonStringify(b) ==
  [json |-> [b EXCEPT !.createdAt = [type |-> "string", at |-> b.createdAt.at]]]

\* JSON.parse of that text: the row again, the ISO string still a string.
JsonParse(text) == text.json

\* What the controller sends for a value returned by createBooking.
HttpBody(v) == JsonStringify(v)

\* HTTP status of each way a call can end.
ConflictClass == {"PayloadMismatch", "PreviousFailure", "TimedOut", "InFlight",
                  "LockUnavailable", "LockTtlTooShort", "LockHeld",
                  "AlreadyBooked", "OnHold", "VersionMismatch"}
SuccessClass == {"Fresh", "Replayed"}
ServerErrorClass == {"UniqueViolation", "RedisError", "CachedResponseMissing"}

----------------------------------------------------------------------------
\* Rows and locals

NoReq == [id |-> 0, op |-> "none", key |-> "none", seat |-> "none", user |-> "none",
          extend |-> FALSE, conc |-> {}, prior |-> FALSE, seat0 |-> "none"]

NoLoc == [expRem |-> 0, found |-> "none", rec |-> {}, elapsed |-> 0, attempt |-> 0,
          pend |-> {}, got |-> {}, wake |-> 0, ext |-> {}, seatVer |-> {},
          txBooking |-> {}, txSeat |-> {}, err |-> {}, res |-> {}]

\* prisma.seat.create({ status: 'AVAILABLE', version: 0 }) of the tests; schema defaults.
NewSeat == [status |-> "AVAILABLE", version |-> 0, holdExpiresAt |-> {}]

\* The calls in progress.
Running == {q \in Procs : pc[q] # "idle"}

\* randomUUID(): one token per acquisition, here the number of the call.
Token(p) == req[p].id

InBody(p) == pc[p] \in {"txRead", "txInsert", "txUpdate", "txCommit", "body"}

\* What is kept of a finished call.
Entry(r, found, outcome, resp) ==
  [id |-> r.id, op |-> r.op, key |-> r.key, seat |-> r.seat, user |-> r.user,
   conc |-> r.conc, prior |-> r.prior, seat0 |-> r.seat0, found |-> found,
   outcome |-> outcome, resp |-> resp]

\* The call of process p ends with this outcome and response.
Done(p, l, outcome, resp) ==
  /\ hist' = hist \cup {Entry(req[p], l.found, outcome, resp)}
  /\ firstResp' = IF outcome = "Fresh" /\ firstResp[req[p].key] = {}
                  THEN [firstResp EXCEPT ![req[p].key] = {HttpBody(The(resp))}]
                  ELSE firstResp
  /\ pc' = [pc EXCEPT ![p] = "idle"]
  /\ req' = [req EXCEPT ![p] = NoReq]
  /\ loc' = [loc EXCEPT ![p] = NoLoc]

\* The call of process p goes on at `label` with locals l.
Goto(p, label, l) ==
  /\ pc' = [pc EXCEPT ![p] = label]
  /\ loc' = [loc EXCEPT ![p] = l]
  /\ UNCHANGED <<req, hist, firstResp>>

\* What no step of a call changes.
ghost == <<calls, workCount, reaped>>

store == <<seats, bookings, idem, rowLock>>
cache == <<redis, inflight>>
config == <<clients, down>>
aside == <<sweep, extRun>>

----------------------------------------------------------------------------
\* The store of record (read committed)

\* TransactionService.runInTransaction / prisma.$transaction: the writes of the
\* callback are committed when it returns and discarded when it throws.
runInTransactionNeverCommits(before, after, threw) == before

runInTransactionNeverRollsBack(before, after, threw) == after

runInTransaction(before, after, threw) == IF threw THEN before ELSE after

\* IdempotencyRecord_pkey: another transaction's uncommitted insert of the same key
\* makes an insert wait.
IdemInsertWaits(p, k) ==
  \E q \in Procs \ {p} : loc[q].rec # {} /\ req[q].key = k

\* Booking_idempotencyKey_key: same, for booking rows.
BookingInsertWaits(p, k) ==
  \E q \in Procs \ {p} : loc[q].txBooking # {} /\ req[q].key = k

\* A Booking table without the unique index on idempotencyKey.
BookingKeyNeverTaken(k) == FALSE

\* The unique index on Booking.idempotencyKey rejects a second row with the key.
BookingKeyTaken(k) == \E b \in bookings : b.idempotencyKey = k

\* An update that leaves the version as it was.
IncrementNever(v) == v

\* Prisma's version: { increment: 1 } in the data of a seat update.
Increment(v) == v + 1

\* updateMany without the version in its where clause.
GuardedCountUnguarded(s, ver) == 1

\* seat.updateMany({ where: { id, version } }): rows matched by the guard.
GuardedCount(s, ver) == IF seats[s].version = ver THEN 1 ELSE 0

----------------------------------------------------------------------------
\* RedlockService

\* An exception leaves acquireLock / withLock: checkOrCreate catches it (reserve),
\* or it reaches the caller of withLock.
Raise(p, l, kind) ==
  <<IF req[p].op = "reserve" THEN "idemFinal" ELSE "return", [l EXCEPT !.err = {kind}]>>

\* A withLock without its finally block: the lock is left to its TTL.
FinallyNoRelease(l) == <<"idemFinal", [l EXCEPT !.ext = {}]>>

\* withLock's finally: clearInterval, then releaseLock on all instances.
Finally(l) == <<"release", [l EXCEPT !.ext = {}, !.pend = clients]>>

\* acquireLock up to its first round of SET NX PX: token, startTime, the TTL check.
acquireLockBegin(p, l) ==
  IF LockTtl - Drift(LockTtl) - 0 <= 0
  THEN Raise(p, l, "LockTtlTooShort")
  ELSE <<"acquire", [l EXCEPT !.elapsed = 0, !.attempt = 0, !.pend = clients, !.got = {}]>>

\* client.set(key, token, 'PX', ttlMs, 'NX') on one node.
SetNx(r, n, s, tok) ==
  IF r[n][s] = {} THEN [r EXCEPT ![n][s] = {[val |-> tok, ttl |-> LockTtl]}] ELSE r

\* A release script that deletes the key whatever it holds.
DelAnyToken(r, n, s, tok) == [r EXCEPT ![n][s] = {}]

\* A release script that deletes nothing.
DelIfTokenNoop(r, n, s, tok) == r

\* The release script on one node: delete the key if it holds the token.
DelIfToken(r, n, s, tok) ==
  IF r[n][s] # {} /\ The(r[n][s]).val = tok THEN [r EXCEPT ![n][s] = {}] ELSE r

\* The extend script on one node: pexpire the key if it holds the token.
PexpireIfToken(r, n, s, tok) ==
  IF r[n][s] # {} /\ The(r[n][s]).val = tok
  THEN [r EXCEPT ![n][s] = {[val |-> tok, ttl |-> LockTtl]}]
  ELSE r

\* One reply of the Promise.all of acquireLockOnInstance.  A node that fails
\* rejects the Promise.all at once; the other commands stay on their way.
acquireLockOnInstance(p, n) ==
  /\ pc[p] = "acquire"
  /\ n \in loc[p].pend
  /\ LET l == loc[p]
         s == req[p].seat
         ok == redis[n][s] = {}
     IN IF n \in down
        THEN /\ inflight' = inflight \cup
                  {[op |-> "SET", node |-> m, seat |-> s, tok |-> Token(p)] : m \in l.pend \ {n}}
             /\ redis' = redis
             /\ LET to == Raise(p, [l EXCEPT !.pend = {}], "RedisError")
                IN Goto(p, to[1], to[2])
        ELSE /\ redis' = SetNx(redis, n, s, Token(p))
             /\ inflight' = inflight
             /\ Goto(p, "acquire", [l EXCEPT !.pend = @ \ {n},
                                             !.got = IF ok THEN @ \cup {n} ELSE @])
  /\ UNCHANGED <<config, aside, store, ghost>>

\* All replies are in: quorum or rollback (lines 59-66); on quorum withLock arms the
\* extension timer and runs its body.
acquireLockDecide(p) ==
  /\ pc[p] = "acquire"
  /\ loc[p].pend = {}
  /\ LET l == loc[p]
         successCount == Cardinality(l.got)
         actualValidity == LockTtl - l.elapsed - Drift(LockTtl)
         validityTime == Max(actualValidity, 0)
         timer == IF req[p].extend /\ ExtendInterval > 0 /\ ExtendInterval < validityTime
                  THEN {ExtendInterval} ELSE {}
     IN IF successCount >= Quorum(clients)
        THEN Goto(p, IF req[p].op = "reserve" THEN "txRead" ELSE "body",
                  [l EXCEPT !.ext = timer, !.elapsed = 0])
        ELSE Goto(p, "acqRollback", [l EXCEPT !.pend = clients])
  /\ UNCHANGED <<config, aside, cache, store, ghost>>

\* One reply of releaseLockOnAllInstances (Promise.allSettled: a failing node is
\* ignored), in the rollback of an attempt; after the last one the retry delay,
\* or the ConflictException once the attempts are used up.
acquireLockRollback(p, n) ==
  /\ pc[p] = "acqRollback"
  /\ n \in loc[p].pend
  /\ redis' = IF n \in down THEN redis ELSE DelIfToken(redis, n, req[p].seat, Token(p))
  /\ LET l == [loc[p] EXCEPT !.pend = @ \ {n}]
         to == IF l.pend # {} THEN <<"acqRollback", l>>
               ELSE IF l.attempt < RetryCount - 1
                    THEN <<"acqWait", [l EXCEPT !.attempt = @ + 1, !.wake = RetryDelay]>>
                    ELSE Raise(p, [l EXCEPT !.attempt = @ + 1], "LockUnavailable")
     IN Goto(p, to[1], to[2])
  /\ UNCHANGED <<config, aside, inflight, store, ghost>>

\* The retry delay is over: the next round of the while loop.
acquireLockRetry(p) ==
  /\ pc[p] = "acqWait"
  /\ loc[p].wake = 0
  /\ Goto(p, "acquire", [loc[p] EXCEPT !.pend = clients, !.got = {}])
  /\ UNCHANGED <<config, aside, cache, store, ghost>>

\* A client sends its commands to a node over one connection, which keeps their
\* order: the node runs the release script after the commands the call sent before.
Outstanding(p, n) == \E m \in inflight : m.node = n /\ m.tok = Token(p)

\* One reply of releaseLock in withLock's finally; after the last one withLock is left.
releaseLock(p, n) ==
  /\ pc[p] = "release"
  /\ n \in loc[p].pend
  /\ ~Outstanding(p, n)
  /\ redis' = IF n \in down THEN redis ELSE DelIfToken(redis, n, req[p].seat, Token(p))
  /\ LET l == [loc[p] EXCEPT !.pend = @ \ {n}]
     IN Goto(p, IF l.pend # {} THEN "release"
                ELSE IF req[p].op = "reserve" THEN "idemFinal" ELSE "return", l)
  /\ UNCHANGED <<config, aside, inflight, store, ghost>>

\* The setInterval callback of withLock: extendLock sends the extend script to
\* every node.
extendLock(p) ==
  /\ InBody(p)
  /\ loc[p].ext = {0}
  /\ inflight' = inflight \cup
       {[op |-> "EXT", node |-> n, seat |-> req[p].seat, tok |-> Token(p)] : n \in clients}
  /\ Goto(p, pc[p], [loc[p] EXCEPT !.ext = {ExtendInterval}])
  /\ UNCHANGED <<config, aside, redis, store, ghost>>

\* No call of extendLock on its own is under way.
NoExtend == [pc |-> "idle", tok |-> 0, seat |-> "none", pend |-> {}, ones |-> {},
             rejected |-> FALSE, result |-> {}]

\* extendLock(key, token, ttlMs) called on its own: the script goes to every node.
extendLockCall(s, t) ==
  /\ extRun.pc = "idle"
  /\ extRun' = [NoExtend EXCEPT !.pc = "replies", !.tok = t, !.seat = s, !.pend = clients]
  /\ UNCHANGED <<config, sweep, cache, store, pc, req, loc, ghost, firstResp, hist>>

\* A node runs the script and replies, 1 if it reset the TTL; the eval on a node
\* that cannot be reached rejects, and with it the Promise.all (lines 95-97).
extendLockReply(n) ==
  /\ extRun.pc = "replies"
  /\ n \in extRun.pend
  /\ LET s == extRun.seat
         one == n \notin down /\ \E e \in redis[n][s] : e.val = extRun.tok
     IN /\ redis' = IF n \in down THEN redis
                    ELSE PexpireIfToken(redis, n, s, extRun.tok)
        /\ extRun' = [extRun EXCEPT !.pend = @ \ {n},
                                    !.ones = IF one THEN @ \cup {n} ELSE @,
                                    !.rejected = @ \/ n \in down]
  /\ UNCHANGED <<config, sweep, inflight, store, pc, req, loc, ghost, firstResp, hist>>

\* successCount >= this.quorum (lines 98-99), or the rejection of the Promise.all.
extendLockReturn ==
  /\ extRun.pc = "replies"
  /\ extRun.pend = {}
  /\ LET successCount == Cardinality(extRun.ones)
     IN extRun' = [extRun EXCEPT
                     !.pc = "done",
                     !.result = IF extRun.rejected THEN {"rejected"}
                                ELSE IF successCount >= Quorum(clients)
                                     THEN {"true"} ELSE {"false"}]
  /\ UNCHANGED <<config, sweep, cache, store, pc, req, loc, ghost, firstResp, hist>>

\* The call whose extendLock, awaited in the setInterval callback of withLock
\* (lines 106-111), is rejected by the eval on an unreachable node: the callback
\* has no catch, and Node ends the process on the unhandled rejection.
Unhandled(m) ==
  {p \in Running : m.op = "EXT" /\ m.node \in down /\ Token(p) = m.tok}

\* A command on its way reaches its node: an extend script, or a SET NX PX whose
\* Promise.all was already rejected.  The rejection of an extend script ends the
\* call that sent it, where it stands: no release, no result, its open
\* transactions lost.
cacheCommand(m) ==
  /\ m \in inflight
  /\ inflight' = inflight \ {m}
  /\ redis' = IF m.node \in down THEN redis
              ELSE IF m.op = "EXT" THEN PexpireIfToken(redis, m.node, m.seat, m.tok)
              ELSE SetNx(redis, m.node, m.seat, m.tok)
  /\ IF Unhandled(m) # {}
     THEN /\ Done(The(Unhandled(m)), loc[The(Unhandled(m))], "Crashed", {})
          /\ rowLock' = [s \in Seats |-> rowLock[s] \ Unhandled(m)]
     ELSE UNCHANGED <<pc, req, loc, firstResp, hist, rowLock>>
  /\ UNCHANGED <<config, aside, seats, bookings, idem, ghost>>

----------------------------------------------------------------------------
\* IdempotencyService.checkOrCreate around BookingService.createBooking

\* A where clause with lte: a hold that ends now counts as run out.
HoldLapsedOrDue(seat) ==
  seat.status = "HOLD" /\ seat.holdExpiresAt # {} /\ The(seat.holdExpiresAt) <= 0

\* where: { status: 'HOLD', holdExpiresAt: { lt: now } }, the hold has run out.
HoldLapsed(seat) ==
  seat.status = "HOLD" /\ seat.holdExpiresAt # {} /\ The(seat.holdExpiresAt) < 0

\* What a call learns about its start: the calls running beside it, whether the
\* same key and payload succeeded before, the status of the seat.
NewReq(p, op, k, s, u, ext) ==
  [id |-> calls + 1, op |-> op, key |-> k, seat |-> s, user |-> u, extend |-> ext,
   conc |-> {req[q].id : q \in Running},
   prior |-> \E r \in hist : /\ r.op = op /\ r.key = k /\ r.seat = s /\ r.user = u
                             /\ r.outcome \in SuccessClass,
   seat0 |-> IF HoldLapsed(seats[s]) THEN "LAPSED" ELSE seats[s].status]

\* A comparison that never finds a difference.
HashDiffersNever(existing, requestHash) == FALSE

\* existing.requestHash !== requestHash (line 58).
HashDiffers(existing, requestHash) == existing.requestHash # requestHash

\* The keys and users of the calls made so far, and the keys with a record.
UsedKeys == {r.key : r \in hist} \cup {req[q].key : q \in Running}
            \cup {k \in Keys : idem[k] # {}}
UsedUsers == {r.user : r \in hist} \cup {req[q].user : q \in Running}

\* An idle process is as good as another: a call is served by the first idle one.
Serves(p) ==
  /\ pc[p] = "idle"
  /\ \E i \in DOMAIN ProcOrder :
       ProcOrder[i] = p /\ \A h \in 1..(i - 1) : pc[ProcOrder[h]] # "idle"

\* createBooking with valid input, then checkOrCreate up to the branches on an
\* existing record (lines 45-92): requestHash, expiresAt = now + ttl, findUnique.
createBooking(p, k, s, u) ==
  /\ Serves(p)
  /\ calls < MaxCalls
  /\ k \in Allowed(KeyOrder, UsedKeys)
  /\ u \in Allowed(UserOrder, UsedUsers)
  /\ calls' = calls + 1
  /\ LET r == NewReq(p, "reserve", k, s, u, TRUE)
         l == [NoLoc EXCEPT !.expRem = IdemTtl]
         requestHash == hashRequest(s, u)
         Start(label, found) ==
           /\ pc' = [pc EXCEPT ![p] = label]
           /\ req' = [req EXCEPT ![p] = r]
           /\ loc' = [loc EXCEPT ![p] = [l EXCEPT !.found = found]]
           /\ UNCHANGED <<hist, firstResp>>
         End(found, outcome, resp) ==
           /\ hist' = hist \cup {Entry(r, found, outcome, resp)}
           /\ UNCHANGED <<pc, req, loc, firstResp>>
     IN IF idem[k] = {}
        THEN /\ Start("idemCreate", "absent")
             /\ idem' = idem
        ELSE LET existing == The(idem[k])
                 failed == [idem EXCEPT ![k] = {[existing EXCEPT !.state = "FAILED"]}]
             IN IF HashDiffers(existing, requestHash)
                THEN /\ End("mismatch", "PayloadMismatch", {})
                     /\ idem' = idem
                ELSE IF existing.state = "SUCCESS"
                THEN IF existing.responseData = {} \/ existing.statusCode = {}
                     THEN /\ End("SUCCESS", "CachedResponseMissing", {})
                          /\ idem' = idem
                     ELSE /\ End("SUCCESS", "Replayed", {JsonParse(The(existing.responseData))})
                          /\ idem' = idem
                ELSE IF existing.state = "FAILED"
                THEN /\ End("FAILED", "PreviousFailure", {})
                     /\ idem' = idem
                ELSE IF existing.age > IdemTtl
                THEN /\ End("STALE", "TimedOut", {})
                     /\ idem' = runInTransaction(idem, failed, TRUE)
                ELSE /\ End("IN_PROGRESS", "InFlight", {})
                     /\ idem' = idem
  /\ UNCHANGED <<config, aside, cache, seats, bookings, rowLock, workCount, reaped>>

\* idempotencyRecord.create (lines 94-101), then work() starts: withLock, acquireLock.
checkOrCreateCreate(p) ==
  /\ pc[p] = "idemCreate"
  /\ ~IdemInsertWaits(p, req[p].key)
  /\ LET k == req[p].key
         l == loc[p]
         record == [state |-> "IN_PROGRESS",
                    requestHash |-> hashRequest(req[p].seat, req[p].user),
                    responseData |-> {}, statusCode |-> {},
                    age |-> 0, expRem |-> l.expRem]
     IN IF idem[k] # {}
        THEN /\ Done(p, l, "UniqueViolation", {})
             /\ workCount' = workCount
        ELSE /\ LET to == acquireLockBegin(p, [l EXCEPT !.rec = {record}, !.expRem = 0,
                                                          !.found = "created"])
                IN Goto(p, to[1], to[2])
             /\ workCount' = [workCount EXCEPT ![k] = @ + 1]
  /\ UNCHANGED <<config, aside, cache, store, calls, reaped>>

\* The body of the seat transaction throws: its writes are rolled back and
\* withLock's finally runs.
Throw(l, kind) == Finally([l EXCEPT !.err = {kind}, !.txBooking = {}, !.txSeat = {}])

\* A validation that lets every seat pass.
SeatRejectionNever(seat) == {}

\* The validation of the seat that was read (lines 92-99): the ConflictException
\* it throws, if any.
SeatRejection(seat) ==
  LET holdExpired == /\ seat.status = "HOLD"
                     /\ seat.holdExpiresAt # {}
                     /\ The(seat.holdExpiresAt) <= 0
  IN IF seat.status = "BOOKED" THEN {"AlreadyBooked"}
     ELSE IF seat.status = "HOLD" /\ ~holdExpired THEN {"OnHold"}
     ELSE {}

\* seat.findUnique and the validation of the seat (lines 87-99).
createBookingRead(p) ==
  /\ pc[p] = "txRead"
  /\ LET l == loc[p]
         seat == seats[req[p].seat]
         to == IF SeatRejection(seat) # {} THEN Throw(l, The(SeatRejection(seat)))
               ELSE <<"txInsert", [l EXCEPT !.seatVer = {seat.version}]>>
     IN Goto(p, to[1], to[2])
  /\ UNCHANGED <<config, aside, cache, store, ghost>>

\* A booking row that does not carry the key of its request.
NewBookingNoKey(r) ==
  [id |-> r.id, seatId |-> r.seat, userId |-> r.user, status |-> "CONFIRMED",
   idempotencyKey |-> "none", createdAt |-> [type |-> "Date", at |-> r.id],
   expiresAt |-> {}]

\* The row of tx.booking.create (lines 101-108): seatId, userId, CONFIRMED and
\* the idempotency key of the request; id and createdAt by default, expiresAt
\* null.
NewBooking(r) ==
  [id |-> r.id, seatId |-> r.seat, userId |-> r.user, status |-> "CONFIRMED",
   idempotencyKey |-> r.key, createdAt |-> [type |-> "Date", at |-> r.id],
   expiresAt |-> {}]

\* booking.create (lines 101-108).
createBookingInsert(p) ==
  /\ pc[p] = "txInsert"
  /\ ~BookingInsertWaits(p, req[p].key)
  /\ LET l == loc[p]
         booking == NewBooking(req[p])
         to == IF BookingKeyTaken(req[p].key) THEN Throw(l, "UniqueViolation")
               ELSE <<"txUpdate", [l EXCEPT !.txBooking = {booking}]>>
     IN Goto(p, to[1], to[2])
  /\ UNCHANGED <<config, aside, cache, store, ghost>>

\* An update to BOOKED that leaves holdExpiresAt as it was.
BookedDataKeepsHold(seat) == [seat EXCEPT !.status = "BOOKED", !.version = Increment(@)]

\* The data of the seat update of reserve (lines 112-116): BOOKED,
\* holdExpiresAt null, version incremented.
BookedData(seat) ==
  [status |-> "BOOKED", holdExpiresAt |-> {}, version |-> Increment(seat.version)]

\* seat.updateMany guarded by the version read (lines 110-121); it waits for the
\* row lock of another transaction's uncommitted update.
createBookingUpdate(p) ==
  /\ pc[p] = "txUpdate"
  /\ rowLock[req[p].seat] = {}
  /\ LET l == loc[p]
         s == req[p].seat
         count == GuardedCount(s, The(l.seatVer))
         written == BookedData(seats[s])
     IN IF count = 0
        THEN /\ LET to == Throw(l, "VersionMismatch") IN Goto(p, to[1], to[2])
             /\ bookings' = runInTransaction(bookings, bookings \cup l.txBooking, TRUE)
             /\ rowLock' = rowLock
        ELSE /\ Goto(p, "txCommit", [l EXCEPT !.txSeat = {written}])
             /\ bookings' = bookings
             /\ rowLock' = [rowLock EXCEPT ![s] = {p}]
  /\ UNCHANGED <<config, aside, cache, seats, idem, ghost>>

\* The transaction callback returns { data: booking, statusCode: 201 }: commit.
createBookingCommit(p) ==
  /\ pc[p] = "txCommit"
  /\ LET l == loc[p]
         s == req[p].seat
         to == Finally([l EXCEPT !.res = {[data |-> The(l.txBooking), statusCode |-> 201]},
                                 !.txBooking = {}, !.txSeat = {}])
     IN /\ bookings' = runInTransaction(bookings, bookings \cup l.txBooking, FALSE)
        /\ seats' = runInTransaction(seats, [seats EXCEPT ![s] = The(l.txSeat)], FALSE)
        /\ rowLock' = [rowLock EXCEPT ![s] = {}]
        /\ Goto(p, to[1], to[2])
  /\ UNCHANGED <<config, aside, cache, idem, ghost>>

\* A checkOrCreate whose finally leaves the record as it was created.
FinalStateNever(threw) == "IN_PROGRESS"

\* finalState (lines 104-110): FAILED unless work() returned.
FinalState(threw) == IF threw THEN "FAILED" ELSE "SUCCESS"

\* The try/catch/finally around work() (lines 103-133): the record is updated to
\* its final state, then the transaction of checkOrCreate commits, or rolls back
\* when the failure of work is rethrown.
checkOrCreateFinalize(p) ==
  /\ pc[p] = "idemFinal"
  /\ LET l == loc[p]
         k == req[p].key
         threw == l.err # {}
         finalState == FinalState(threw)
         hasResult == finalState = "SUCCESS" /\ l.res # {}
         record == [The(l.rec) EXCEPT
                      !.state = finalState,
                      !.responseData = IF hasResult THEN {JsonStringify(The(l.res).data)} ELSE {},
                      !.statusCode = IF hasResult THEN {The(l.res).statusCode} ELSE {}]
     IN /\ idem' = runInTransaction(idem, [idem EXCEPT ![k] = {record}], threw)
        /\ IF threw THEN Done(p, l, The(l.err), {})
           ELSE Done(p, l, "Fresh", {The(l.res).data})
  /\ UNCHANGED <<config, aside, cache, seats, bookings, rowLock, ghost>>

----------------------------------------------------------------------------
\* SeatService.holdSeat under RedisLockService.withLock

holdSeat(p, s) ==
  /\ Serves(p)
  /\ calls < MaxCalls
  /\ calls' = calls + 1
  /\ req' = [req EXCEPT ![p] = NewReq(p, "hold", "none", s, "none", FALSE)]
  /\ loc' = [loc EXCEPT ![p] = NoLoc]
  /\ pc' = [pc EXCEPT ![p] = "hAcquire"]
  /\ UNCHANGED <<config, aside, cache, store, workCount, reaped, firstResp, hist>>

\* RedisLockService.acquireLock: one SET NX PX, no retry.
holdAcquire(p) ==
  /\ pc[p] = "hAcquire"
  /\ LET s == req[p].seat
     IN IF HoldNode \in down
        THEN /\ Done(p, loc[p], "RedisError", {})
             /\ redis' = redis
        ELSE IF redis[HoldNode][s] # {}
        THEN /\ Done(p, loc[p], "LockHeld", {})
             /\ redis' = redis
        ELSE /\ Goto(p, "hRead", loc[p])
             /\ redis' = SetNx(redis, HoldNode, s, Token(p))
  /\ UNCHANGED <<config, aside, inflight, store, ghost>>

\* seat.findUnique and the validation of the seat (lines 67-79 of holdSeat).
holdRead(p) ==
  /\ pc[p] = "hRead"
  /\ LET l == loc[p]
         seat == seats[req[p].seat]
         expiredHold == /\ seat.status = "HOLD"
                        /\ seat.holdExpiresAt # {}
                        /\ The(seat.holdExpiresAt) <= 0
     IN IF seat.status = "BOOKED"
        THEN Goto(p, "hRelease", [l EXCEPT !.err = {"AlreadyBooked"}])
        ELSE IF seat.status = "HOLD" /\ ~expiredHold
        THEN Goto(p, "hRelease", [l EXCEPT !.err = {"OnHold"}])
        ELSE Goto(p, "hUpdate", [l EXCEPT !.seatVer = {seat.version}])
  /\ UNCHANGED <<config, aside, cache, store, ghost>>

\* seat.updateMany guarded by the version read, outside any transaction.
holdUpdate(p) ==
  /\ pc[p] = "hUpdate"
  /\ rowLock[req[p].seat] = {}
  /\ LET l == loc[p]
         s == req[p].seat
         count == GuardedCount(s, The(l.seatVer))
     IN IF count = 0
        THEN /\ Goto(p, "hRelease", [l EXCEPT !.err = {"VersionMismatch"}])
             /\ seats' = seats
        ELSE /\ Goto(p, "hReread", l)
             /\ seats' = [seats EXCEPT ![s] = [status |-> "HOLD",
                                               holdExpiresAt |-> {HoldTtl},
                                               version |-> Increment(@.version)]]
  /\ UNCHANGED <<config, aside, cache, bookings, idem, rowLock, ghost>>

\* return this.prisma.seat.findUnique(...): the seat is read again.
holdReread(p) ==
  /\ pc[p] = "hReread"
  /\ Goto(p, "hRelease", [loc[p] EXCEPT !.res = {seats[req[p].seat]}])
  /\ UNCHANGED <<config, aside, cache, store, ghost>>

\* RedisLockService.releaseLock in the finally of withLock.
holdRelease(p) ==
  /\ pc[p] = "hRelease"
  /\ LET l == loc[p]
     IN IF HoldNode \in down
        THEN /\ Done(p, l, "RedisError", {})
             /\ redis' = redis
        ELSE /\ redis' = DelIfToken(redis, HoldNode, req[p].seat, Token(p))
             /\ IF l.err # {} THEN Done(p, l, The(l.err), {})
                ELSE Done(p, l, "Held", l.res)
  /\ UNCHANGED <<config, aside, inflight, store, ghost>>

----------------------------------------------------------------------------
\* The reapers

\* SeatService.releaseExpiredHolds: one bulk update.
releaseExpiredHolds ==
  /\ \A s \in Seats : HoldLapsed(seats[s]) => rowLock[s] = {}
  /\ seats' = [s \in Seats |->
                 IF HoldLapsed(seats[s])
                 THEN [status |-> "AVAILABLE", holdExpiresAt |-> {},
                       version |-> Increment(seats[s].version)]
                 ELSE seats[s]]
  /\ UNCHANGED <<config, aside, cache, bookings, idem, rowLock, pc, req, loc, ghost,
                 firstResp, hist>>

BookingLapsed(b) ==
  b.status = "CONFIRMED" /\ b.expiresAt # {} /\ The(b.expiresAt) < 0

\* A run of expireBookings that is not under way.
NoSweep == [pc |-> "idle", seatIds |-> {}, txBookings |-> {}, txSeats |-> {}]

\* BookingCleanupService.expireBookings, in a transaction of its own: findMany of
\* the CONFIRMED bookings past expiresAt (lines 36-46); without any the run is over.
expireBookings(r) ==
  /\ sweep[r].pc = "idle"
  /\ LET expiredBookings == {b \in bookings : BookingLapsed(b)}
         seatIds == {b.seatId : b \in expiredBookings}
     IN sweep' = IF expiredBookings = {} THEN sweep
                 ELSE [sweep EXCEPT ![r] = [NoSweep EXCEPT !.pc = "bookings",
                                                           !.seatIds = seatIds]]
  /\ UNCHANGED <<config, extRun, cache, store, pc, req, loc, ghost, firstResp, hist>>

\* booking.updateMany to EXPIRED (lines 50-56): the rows are chosen again by the
\* where clause; a row another run has updated and not committed makes it wait.
expireBookingsUpdate(r) ==
  /\ sweep[r].pc = "bookings"
  /\ LET rows == {b.id : b \in {x \in bookings : BookingLapsed(x)}}
     IN /\ \A q \in Sweepers \ {r} : sweep[q].txBookings \cap rows = {}
        /\ sweep' = [sweep EXCEPT ![r].pc = "seats", ![r].txBookings = rows]
  /\ UNCHANGED <<config, extRun, cache, store, pc, req, loc, ghost, firstResp, hist>>

\* seat.updateMany to AVAILABLE (lines 58-67) of the seats found at the start that
\* are BOOKED now; it waits for the row lock of another transaction's update.
expireBookingsSeats(r) ==
  /\ sweep[r].pc = "seats"
  /\ LET freed == {s \in sweep[r].seatIds : seats[s].status = "BOOKED"}
     IN /\ \A s \in freed : rowLock[s] = {}
        /\ rowLock' = [s \in Seats |-> IF s \in freed THEN {r} ELSE rowLock[s]]
        /\ sweep' = [sweep EXCEPT ![r].pc = "commit", ![r].txSeats = freed]
  /\ UNCHANGED <<config, extRun, cache, seats, bookings, idem, pc, req, loc, ghost,
                 firstResp, hist>>

\* The transaction callback returns { count }: commit (lines 69-70).
expireBookingsCommit(r) ==
  /\ sweep[r].pc = "commit"
  /\ LET w == sweep[r]
     IN /\ bookings' = runInTransaction(bookings,
                         {IF b.id \in w.txBookings THEN [b EXCEPT !.status = "EXPIRED"] ELSE b
                            : b \in bookings}, FALSE)
        /\ seats' = runInTransaction(seats,
                      [s \in Seats |-> IF s \in w.txSeats
                                       THEN [seats[s] EXCEPT !.status = "AVAILABLE",
                                                             !.version = Increment(@)]
                                       ELSE seats[s]], FALSE)
        /\ rowLock' = [s \in Seats |-> IF s \in w.txSeats THEN {} ELSE rowLock[s]]
        /\ sweep' = [sweep EXCEPT ![r] = NoSweep]
  /\ UNCHANGED <<config, extRun, cache, idem, pc, req, loc, ghost, firstResp, hist>>

\* A reaper that keeps the expired records and marks them FAILED.
cleanupExpiredMarks ==
  LET gone == {k \in Keys : idem[k] # {} /\ The(idem[k]).expRem < 0}
  IN /\ idem' = [k \in Keys |-> IF k \in gone
                                 THEN {[The(idem[k]) EXCEPT !.state = "FAILED"]}
                                 ELSE idem[k]]
     /\ UNCHANGED <<config, aside, cache, seats, bookings, rowLock, pc, req, loc, ghost,
                    firstResp, hist>>

\* IdempotencyService.cleanupExpired: deleteMany where expiresAt < now.
cleanupExpired ==
  LET gone == {k \in Keys : idem[k] # {} /\ The(idem[k]).expRem < 0}
  IN /\ idem' = [k \in Keys |-> IF k \in gone THEN {} ELSE idem[k]]
     /\ workCount' = [k \in Keys |-> IF k \in gone THEN 0 ELSE workCount[k]]
     /\ reaped' = reaped \cup gone
     /\ UNCHANGED <<config, aside, cache, seats, bookings, rowLock, pc, req, loc, calls,
                    firstResp, hist>>

----------------------------------------------------------------------------
\* Time

TickRecord(r) == [r EXCEPT !.age = Min(@ + 1, IdemTtl + 1), !.expRem = Max(@ - 1, -1)]

TickOpt(S) == {Max(t - 1, -1) : t \in S}

\* One tick passes: every distance to "now" moves by one, cache entries whose
\* TTL is used up disappear.
\* Keys that are kept whatever their PX.
ElapseNever(entries) == entries

\* The PX of SET key token PX ttl NX: one unit of the TTL elapses, the key
\* whose TTL runs out is deleted by its node.
Elapse(entries) == {[e EXCEPT !.ttl = @ - 1] : e \in {x \in entries : x.ttl > 1}}

Tick ==
  /\ redis' = [n \in Nodes |-> [s \in Seats |-> Elapse(redis[n][s])]]
  /\ seats' = [s \in Seats |-> [seats[s] EXCEPT !.holdExpiresAt = TickOpt(@)]]
  /\ bookings' = {[b EXCEPT !.expiresAt = TickOpt(@)] : b \in bookings}
  /\ idem' = [k \in Keys |-> {TickRecord(r) : r \in idem[k]}]
  /\ loc' = [p \in Procs |->
               IF pc[p] = "idle" THEN loc[p]
               ELSE [loc[p] EXCEPT !.expRem = IF pc[p] = "idemCreate" THEN Max(@ - 1, -1) ELSE @,
                                   !.rec = {TickRecord(r) : r \in @},
                                   !.elapsed = IF pc[p] \in {"acquire", "acqRollback", "acqWait"}
                                               THEN Min(@ + 1, LockTtl) ELSE @,
                                   !.wake = Max(@ - 1, 0),
                                   !.ext = {Max(t - 1, 0) : t \in @}]]
  /\ UNCHANGED <<config, aside, inflight, rowLock, pc, req, ghost, firstResp, hist>>

----------------------------------------------------------------------------
\* RedlockService.withLock called on its own, around a body that returns or throws

withLock(p, s, ext) ==
  /\ Serves(p)
  /\ calls < MaxCalls
  /\ calls' = calls + 1
  /\ req' = [req EXCEPT ![p] = NewReq(p, "lock", "none", s, "none", ext)]
  /\ LET to == acquireLockBegin(p, NoLoc)
     IN /\ pc' = [pc EXCEPT ![p] = to[1]]
        /\ loc' = [loc EXCEPT ![p] = to[2]]
  /\ UNCHANGED <<config, aside, cache, store, workCount, reaped, firstResp, hist>>

\* The body ends: it returns, or it throws.
withLockBody(p, throws) ==
  /\ pc[p] = "body"
  /\ LET to == Finally(IF throws THEN [loc[p] EXCEPT !.err = {"BodyFailure"}]
                       ELSE [loc[p] EXCEPT !.res = {"BodyResult"}])
     IN Goto(p, to[1], to[2])
  /\ UNCHANGED <<config, aside, cache, store, ghost>>

\* withLock is left: with the result or the failure of the body, or with the
\* failure of acquireLock.
withLockReturn(p) ==
  /\ pc[p] = "return"
  /\ IF loc[p].err # {} THEN Done(p, loc[p], The(loc[p].err), {})
     ELSE Done(p, loc[p], "Returned", loc[p].res)
  /\ UNCHANGED <<config, aside, cache, store, ghost>>

----------------------------------------------------------------------------
\* Specifications

InitState ==
  /\ redis = [n \in Nodes |-> [s \in Seats |-> {}]]
  /\ inflight = {}
  /\ rowLock = [s \in Seats |-> {}]
  /\ pc = [p \in Procs |-> "idle"]
  /\ req = [p \in Procs |-> NoReq]
  /\ loc = [p \in Procs |-> NoLoc]
  /\ calls = 0
  /\ workCount = [k \in Keys |-> 0]
  /\ firstResp = [k \in Keys |-> {}]
  /\ reaped = {}
  /\ sweep = [r \in Sweepers |-> NoSweep]
  /\ extRun = NoExtend
  /\ hist = {}

Redlock(p) ==
  \/ \E n \in Nodes : acquireLockOnInstance(p, n)
  \/ acquireLockDecide(p)
  \/ \E n \in Nodes : acquireLockRollback(p, n)
  \/ acquireLockRetry(p)
  \/ \E n \in Nodes : releaseLock(p, n)
  \/ extendLock(p)

Reserve(p) ==
  \/ \E k \in Keys, s \in Seats, u \in Users : createBooking(p, k, s, u)
  \/ checkOrCreateCreate(p)
  \/ createBookingRead(p)
  \/ createBookingInsert(p)
  \/ createBookingUpdate(p)
  \/ createBookingCommit(p)
  \/ checkOrCreateFinalize(p)

Hold(p) ==
  \/ \E s \in Seats : holdSeat(p, s)
  \/ holdAcquire(p)
  \/ holdRead(p)
  \/ holdUpdate(p)
  \/ holdReread(p)
  \/ holdRelease(p)

Reapers ==
  \/ releaseExpiredHolds
  \/ \E r \in Sweepers : expireBookings(r)
  \/ cleanupExpired

Lock(p) ==
  \/ \E s \in Seats, ext \in BOOLEAN : withLock(p, s, ext)
  \/ \E throws \in BOOLEAN : withLockBody(p, throws)
  \/ withLockReturn(p)

\* The process serving the reserve call of p stops while work() is running:
\* nothing is released or finalized, and the store of record rolls back the
\* transactions of the connections it loses, that of checkOrCreate with its
\* IN_PROGRESS record included.
abandon(p) ==
  /\ req[p].op = "reserve"
  /\ pc[p] \in {"acquire", "acqRollback", "acqWait",
                "txRead", "txInsert", "txUpdate", "txCommit", "release"}
  /\ Done(p, loc[p], "Abandoned", {})
  /\ rowLock' = [s \in Seats |-> rowLock[s] \ {p}]
  /\ UNCHANGED <<config, aside, cache, seats, bookings, idem, ghost>>

\* A seat somebody holds: what holdSeat leaves behind.
HeldSeat == [status |-> "HOLD", version |-> 1, holdExpiresAt |-> {HoldTtl}]

\* A row of IdempotencyRecord as the table admits it (state defaults to
\* IN_PROGRESS): fresh or older than the TTL, for the payload (s1, u1).
SeededRecord(state, stale) ==
  [state |-> state, requestHash |-> hashRequest("s1", "u1"),
   responseData |-> {}, statusCode |-> {},
   age |-> IF stale THEN IdemTtl + 1 ELSE 0,
   expRem |-> IF stale THEN -1 ELSE IdemTtl]

\* The service of the tests: one cache node, all nodes reachable, two clients,
\* an available seat, no idempotency record.
Init ==
  /\ InitState
  /\ bookings = {}
  /\ clients = {1}
  /\ down = {}
  /\ seats = [s \in Seats |-> NewSeat]
  /\ idem = [k \in Keys |-> {}]

Next ==
  \/ \E p \in {"p1", "p2"} : Reserve(p) \/ Redlock(p) \/ Hold(p)
  \/ \E m \in inflight : cacheCommand(m)
  \/ Reapers
  \/ Tick

Spec == Init /\ [][Next]_vars

\* The same service with time that passes, cache commands that arrive, and
\* calls whose continuation and whose lock steps (the timer callback among
\* them) each run when they can.
SpecLive ==
  /\ Spec
  /\ WF_vars(Tick)
  /\ WF_vars(\E m \in inflight : cacheCommand(m))
  /\ \A p \in {"p1", "p2"} :
       WF_vars(Reserve(p)) /\ WF_vars(Hold(p)) /\ WF_vars(Redlock(p))

\* The service of the tests with reserve calls that can be abandoned, the
\* cleanup reaper and the clock.
NextAbandon ==
  \/ \E p \in {"p1", "p2"} : Reserve(p) \/ Redlock(p) \/ abandon(p)
  \/ \E m \in inflight : cacheCommand(m)
  \/ cleanupExpired
  \/ Tick

\* Every call that is not abandoned goes on, the nodes execute what they
\* receive and time passes.
SpecAbandon ==
  /\ Init /\ [][NextAbandon]_vars
  /\ WF_vars(Tick)
  /\ WF_vars(\E m \in inflight : cacheCommand(m))
  /\ \A p \in {"p1", "p2"} : WF_vars(Reserve(p)) /\ WF_vars(Redlock(p))

\* Reserve calls only, against one cache node or two.
InitRace ==
  /\ InitState
  /\ bookings = {}
  /\ clients \in {{1}, {1, 2}}
  /\ down = {}
  /\ seats = [s \in Seats |-> NewSeat]
  /\ idem = [k \in Keys |-> {}]

NextRace ==
  \/ \E p \in {"p1", "p2"} : Reserve(p) \/ Redlock(p)
  \/ \E m \in inflight : cacheCommand(m)
  \/ Tick

SpecRace == InitRace /\ [][NextRace]_vars

\* Reserve calls and the reapers, against a seat that is available or on hold.
InitHeld ==
  /\ InitState
  /\ bookings = {}
  /\ clients = {1}
  /\ down = {}
  /\ seats \in [Seats -> {NewSeat, HeldSeat}]
  /\ idem = [k \in Keys |-> {}]

NextHeld ==
  \/ \E p \in {"p1", "p2"} : Reserve(p) \/ Redlock(p)
  \/ \E m \in inflight : cacheCommand(m)
  \/ releaseExpiredHolds
  \/ cleanupExpired
  \/ Tick

SpecHeld == InitHeld /\ [][NextHeld]_vars

\* Reserve calls and the reapers, with a record for k1 already in the table.
InitSeeded ==
  /\ InitState
  /\ bookings = {}
  /\ clients = {1}
  /\ down = {}
  /\ seats = [s \in Seats |-> NewSeat]
  /\ \E state \in {"IN_PROGRESS", "FAILED"}, stale \in BOOLEAN :
       idem = [k \in Keys |-> IF k = "k1" THEN {SeededRecord(state, stale)} ELSE {}]

SpecSeeded == InitSeeded /\ [][NextHeld]_vars

\* RedlockService.withLock on its own, two callers against one cache node or two.
InitLock ==
  /\ InitState
  /\ bookings = {}
  /\ clients \in {{1}, {1, 2}}
  /\ down = {}
  /\ seats = [s \in Seats |-> NewSeat]
  /\ idem = [k \in Keys |-> {}]

NextLock ==
  \/ \E p \in {"p1", "p2"} : Lock(p) \/ Redlock(p)
  \/ \E m \in inflight : cacheCommand(m)
  \/ Tick

SpecLock == InitLock /\ [][NextLock]_vars

\* A cache node becomes unreachable: from now on its commands are rejected.
nodeFails(n) ==
  /\ n \in clients \ down
  /\ down' = down \cup {n}
  /\ UNCHANGED <<clients, aside, cache, store, pc, req, loc, ghost, firstResp, hist>>

\* RedlockService.withLock on its own, two callers against two cache nodes that
\* are reachable at first and may fail at any time.
InitIso ==
  /\ InitState
  /\ bookings = {}
  /\ clients = {1, 2}
  /\ down = {}
  /\ seats = [s \in Seats |-> NewSeat]
  /\ idem = [k \in Keys |-> {}]

NextIso ==
  \/ \E p \in {"p1", "p2"} : Lock(p) \/ Redlock(p)
  \/ \E m \in inflight : cacheCommand(m)
  \/ \E n \in Nodes : nodeFails(n)
  \/ Tick

SpecIso == InitIso /\ [][NextIso]_vars

\* What a node can store under the key when extendLock is called with token 1:
\* nothing, token 1, or the token of another caller, with some TTL left.
StoredEntries == {{}} \cup {{[val |-> v, ttl |-> t]} : v \in {1, 2}, t \in 1..LockTtl}

\* extendLock on its own: one to three nodes with any such entries, at most one
\* node unreachable, entries that expire while the replies come in.
InitExtend ==
  /\ inflight = {}
  /\ rowLock = [s \in Seats |-> {}]
  /\ pc = [p \in Procs |-> "idle"]
  /\ req = [p \in Procs |-> NoReq]
  /\ loc = [p \in Procs |-> NoLoc]
  /\ calls = 0
  /\ workCount = [k \in Keys |-> 0]
  /\ firstResp = [k \in Keys |-> {}]
  /\ reaped = {}
  /\ hist = {}
  /\ sweep = [r \in Sweepers |-> NoSweep]
  /\ extRun = NoExtend
  /\ bookings = {}
  /\ seats = [s \in Seats |-> NewSeat]
  /\ idem = [k \in Keys |-> {}]
  /\ clients \in {{1}, {1, 2}, {1, 2, 3}}
  /\ down \in {{}} \cup {{n} : n \in clients}
  /\ redis \in [Nodes -> [Seats -> StoredEntries]]
  /\ \A n \in Nodes \ clients : \A s \in Seats : redis[n][s] = {}

NextExtend ==
  \/ \E s \in Seats : extendLockCall(s, 1)
  \/ \E n \in Nodes : extendLockReply(n)
  \/ extendLockReturn
  \/ Tick

SpecExtend == InitExtend /\ [][NextExtend]_vars

\* The same callers with time that passes, cache commands that arrive, and
\* calls whose body and whose lock steps each run when they can.
SpecLockLive ==
  /\ SpecLock
  /\ WF_vars(Tick)
  /\ WF_vars(\E m \in inflight : cacheCommand(m))
  /\ \A p \in {"p1", "p2"} : WF_vars(Lock(p)) /\ WF_vars(Redlock(p))

\* RedlockService.withLock, one caller at a time, against one to three cache
\* nodes of which at most one is unreachable.
InitDown ==
  /\ InitState
  /\ bookings = {}
  /\ clients \in {{1}, {1, 2}, {1, 2, 3}}
  /\ down \in {{}, {1}}
  /\ seats = [s \in Seats |-> NewSeat]
  /\ idem = [k \in Keys |-> {}]

\* A caller on its own reaches the quorum or meets the unreachable node: no
\* attempt of its acquireLock is rolled back.
NextDown ==
  \/ Lock("p1")
  \/ \E n \in Nodes : acquireLockOnInstance("p1", n)
  \/ acquireLockDecide("p1")
  \/ \E n \in Nodes : releaseLock("p1", n)
  \/ extendLock("p1")
  \/ \E m \in inflight : cacheCommand(m)
  \/ Tick

SpecDown == InitDown /\ [][NextDown]_vars

\* A booking with an expiry, as the Booking table admits it (expiresAt is a
\* nullable column), and its seat.
ExpiringBooking ==
  [id |-> 0, seatId |-> "s1", userId |-> "u1", status |-> "CONFIRMED",
   idempotencyKey |-> "k0", createdAt |-> [type |-> "Date", at |-> 0],
   expiresAt |-> {HoldTtl}]

\* The same booking, made with a key that a client uses again once its
\* idempotency record is gone.
RetriedBooking == [ExpiringBooking EXCEPT !.idempotencyKey = "k1"]

BookedSeat == [status |-> "BOOKED", version |-> 1, holdExpiresAt |-> {}]

\* Reserve and hold calls of one client, two runs of the booking-expiry reaper
\* and the hold reaper, against a seat whose booking expires.
InitExpiry ==
  /\ InitState
  /\ clients = {1}
  /\ down = {}
  /\ seats = [s \in Seats |-> BookedSeat]
  /\ bookings \in {{ExpiringBooking}, {RetriedBooking}}
  /\ idem = [k \in Keys |-> {}]

Sweep(r) ==
  \/ expireBookings(r)
  \/ expireBookingsUpdate(r)
  \/ expireBookingsSeats(r)
  \/ expireBookingsCommit(r)

\* One client, whose acquireLock meets no other holder, beside the reapers.
NextExpiry ==
  \/ Reserve("p1")
  \/ Hold("p1")
  \/ \E n \in Nodes : acquireLockOnInstance("p1", n)
  \/ acquireLockDecide("p1")
  \/ \E n \in Nodes : releaseLock("p1", n)
  \/ extendLock("p1")
  \/ \E m \in inflight : cacheCommand(m)
  \/ \E r \in Sweepers : Sweep(r)
  \/ releaseExpiredHolds
  \/ Tick

SpecExpiry == InitExpiry /\ [][NextExpiry]_vars

----------------------------------------------------------------------------
\* Properties

Confirmed(s) == {b \in bookings : b.seatId = s /\ b.status = "CONFIRMED"}

\* C1: no double booking.  In every reachable state, whatever the interleaving
\* of reserve, hold and reaper steps and however long a lock holder stalls,
\* every seat has at most one booking in status CONFIRMED.
NoDoubleBooking == \A s \in Seats : Cardinality(Confirmed(s)) <= 1

\* C1 happens: a reserve call lost at the version guard, after it had got the
\* lock and read the seat as available, and the seat has its one booking.
NoDoubleBookingWitness ==
  /\ \E r \in hist : r.op = "reserve" /\ r.outcome = "VersionMismatch"
  /\ \E s \in Seats : Cardinality(Confirmed(s)) = 1

\* The calls made so far are two or more reserve calls with pairwise distinct
\* keys that ran concurrently against one seat, available when each of them
\* started, and all of them have returned.
RacedAll(S) ==
  /\ Running = {}
  /\ Cardinality(S) >= 2
  /\ \A a \in S : a.op = "reserve" /\ a.seat0 = "AVAILABLE"
  /\ \A a, b \in S : a # b =>
        /\ a.key # b.key /\ a.seat = b.seat
        /\ a.id < b.id => a.id \in b.conc

Winners(S) == {r \in S : r.outcome \in SuccessClass}

\* C2 as stated: of the concurrent reserve calls with distinct keys on an
\* available seat exactly one succeeds, the others fail with a Conflict-class
\* error, and exactly one CONFIRMED booking exists for the seat afterwards.
SingleWinner ==
  RacedAll(hist) =>
    /\ Cardinality(Winners(hist)) = 1
    /\ \A r \in hist \ Winners(hist) : r.outcome \in ConflictClass
    /\ \A r \in hist : Cardinality(Confirmed(r.seat)) = 1

\* C2 as the code has it: of the concurrent reserve calls with distinct keys on
\* an available seat at most one succeeds, every other one fails with a
\* Conflict-class error, and the seat has as many CONFIRMED bookings as there
\* are winners; with a single cache node exactly one call succeeds.
AtMostOneWinner ==
  RacedAll(hist) =>
    /\ Cardinality(Winners(hist)) <= 1
    /\ \A r \in hist \ Winners(hist) : r.outcome \in ConflictClass
    /\ \A r \in hist : Cardinality(Confirmed(r.seat)) = Cardinality(Winners(hist))
    /\ Cardinality(clients) = 1 => Cardinality(Winners(hist)) = 1

\* C2 happens: two concurrent calls with distinct keys have returned, one with
\* its booking, the other with a conflict.
AtMostOneWinnerWitness ==
  /\ RacedAll(hist)
  /\ \E r \in hist : r.outcome = "Fresh"
  /\ \E r \in hist : r.outcome \in ConflictClass

\* C3: for every idempotency key the work closure is invoked at most once
\* during the lifetime of the key's record, that is until the cleanup reaper
\* deletes the record, whatever the calls with that key and their outcomes.
WorkAtMostOnce == \A k \in Keys : workCount[k] <= 1

\* The booking rows of a key.
Booked(k) == {b \in bookings : b.idempotencyKey = k}

\* What a call that replays gives: the stored response, the same HTTP body as
\* the first call's, no second run of work, one booking row.
Replays(r) ==
  /\ r.outcome = "Replayed"
  /\ {HttpBody(The(r.resp))} = firstResp[r.key]
  /\ workCount[r.key] <= 1
  /\ Cardinality(Booked(r.key)) = 1

\* C4 as stated: after a reserve call with key K and a payload has succeeded,
\* every later call with the same K and payload returns the stored response,
\* equal to the first call's, without invoking work again, and exactly one
\* booking row exists for K.
IdempotentReplay ==
  \A r \in hist : r.op = "reserve" /\ r.prior => Replays(r)

\* C4 as the code has it: the same, for the later calls made before the cleanup
\* reaper has deleted the record of K.
IdempotentReplayWhileRecorded ==
  \A r \in hist : r.op = "reserve" /\ r.prior /\ r.key \notin reaped => Replays(r)

\* C4 happens: a call repeated a key and payload that had succeeded, and got
\* the stored response.
IdempotentReplayWitness ==
  \E r \in hist : r.op = "reserve" /\ r.prior /\ r.found = "SUCCESS" /\ r.resp # {}

\* This step starts a reserve call with key k for seat s and user u.
Starts(k, s, u) ==
  /\ calls' = calls + 1
  /\ \/ \E e \in hist' \ hist :
          e.op = "reserve" /\ e.key = k /\ e.seat = s /\ e.user = u
     \/ \E p \in Procs :
          /\ pc[p] = "idle" /\ pc'[p] # "idle"
          /\ req'[p].op = "reserve"
          /\ req'[p].key = k /\ req'[p].seat = s /\ req'[p].user = u

RacedOnKey(a, b) ==
  /\ a.op = "reserve" /\ b.op = "reserve"
  /\ a.key = b.key /\ a.seat = b.seat /\ a.user = b.user
  /\ a.id \in b.conc
  /\ a.seat0 = "AVAILABLE" /\ b.seat0 = "AVAILABLE"

\* C6: of the concurrent reserve calls with the same key and payload on an
\* available seat exactly one returns success, the others return a
\* Conflict-class error, and exactly one booking row with the key exists.
SameKeySingleWinner ==
  \A a, b \in hist : RacedOnKey(a, b) =>
    /\ Cardinality(Winners({a, b})) = 1
    /\ \A r \in {a, b} \ Winners({a, b}) : r.outcome \in ConflictClass
    /\ Cardinality(Booked(a.key)) = 1

\* The nodes on which the key of p's call holds p's token.
Holding(p) ==
  {n \in clients : \E e \in redis[n][req[p].seat] : e.val = Token(p)}

HoldsQuorum(p) == Cardinality(Holding(p)) >= Quorum(clients)

Acquired(r) == r.outcome \in {"Returned", "BodyFailure"}

\* C8: quorum tolerance.  With one of the N cache nodes unreachable and no
\* competing holder, acquire succeeds if and only if the reachable nodes are
\* at least floor(N/2)+1: the unreachable node is one failed vote.
QuorumTolerance ==
  \A r \in hist :
    (r.op = "lock" /\ calls = 1 /\ Cardinality(down \cap clients) = 1)
    => (Acquired(r) <=> Cardinality(clients \ down) >= Quorum(clients))

\* C9: failure finalization.  When checkOrCreate is called with a fresh key and
\* work fails, the failure reaches the caller and the record of the key is
\* persisted FAILED (until the cleanup reaper deletes it), so that a later call
\* with the key fails with PreviousFailure.
FailureFinalized ==
  \A r \in hist :
    (r.op = "reserve" /\ r.found = "created" /\ r.outcome \notin SuccessClass
       /\ r.key \notin reaped /\ calls = r.id)
    => \E rec \in idem[r.key] : rec.state = "FAILED"

RequestInFlight ==
  [][\A k \in Keys, s \in Seats, u \in Users :
       (/\ Starts(k, s, u)
        /\ \E q \in Running :
             /\ req[q].op = "reserve"
             /\ req[q].key = k /\ req[q].seat = s /\ req[q].user = u
             /\ \E rec \in loc[q].rec : rec.age <= IdemTtl)
       => /\ \E e \in hist' \ hist : e.key = k /\ e.outcome = "InFlight"
          /\ workCount' = workCount]_vars

\* C12: withLock releases on every exit path.  Once a withLock call whose body
\* returned or failed has completed, no cache node holds the key with the
\* token of the call, no extension of the call is on its way, and the caller
\* has the result of the body or its failure.
ReleasedOnExit ==
  \A r \in hist :
    (r.op = "lock" /\ Acquired(r))
    => /\ \A n \in clients : \A e \in redis[n][r.seat] : e.val # r.id
       /\ \A m \in inflight : m.tok # r.id
       /\ r.outcome = "Returned" => r.resp = {"BodyResult"}

\* C12 happens: a withLock call whose body failed has completed with that
\* failure, and another one whose body returned has completed.
ReleasedOnExitWitness ==
  /\ \E r \in hist : r.op = "lock" /\ r.outcome = "BodyFailure"
  /\ \E r \in hist : r.op = "lock" /\ r.outcome = "Returned"

\* The steps in which a seat update takes effect: the commit of a reserve, the
\* guarded update of a hold, the bulk update of the hold reaper on a lapsed
\* hold, the commit of a run of the booking-expiry reaper that matched the seat.
SeatWritten(s) ==
  \/ \E p \in Procs : req[p].seat = s /\ pc[p] = "txCommit" /\ pc'[p] # "txCommit"
  \/ \E p \in Procs : req[p].seat = s /\ pc[p] = "hUpdate" /\ pc'[p] = "hReread"
  \/ HoldLapsed(seats[s]) /\ seats'[s].status = "AVAILABLE"
  \/ \E r \in Sweepers : sweep[r].pc = "commit" /\ sweep'[r].pc = "idle" /\ s \in sweep[r].txSeats

\* The steps in which a guarded seat update matches no row.
SeatWriteRejected(s) ==
  \E p \in Procs :
    /\ req[p].seat = s
    /\ \/ pc[p] = "txUpdate" /\ pc'[p] \notin {"txUpdate", "txCommit"}
       \/ pc[p] = "hUpdate" /\ pc'[p] = "hRelease"

\* C13: version monotonicity.  Every seat write that takes effect (reserve,
\* hold, hold reaper, booking-expiry reaper) raises the version of the seat by
\* exactly 1, a rejected write leaves the seat as it was, and no other step
\* changes the version or the status; so the version never decreases.
VersionMonotone ==
  [][\A s \in Seats :
       /\ SeatWritten(s) => seats'[s].version = seats[s].version + 1
       /\ SeatWriteRejected(s) => seats'[s] = seats[s]
       /\ ~SeatWritten(s) => /\ seats'[s].version = seats[s].version
                             /\ seats'[s].status = seats[s].status
       /\ seats'[s].version >= seats[s].version]_vars

\* C13 happens: the seat has been written by the booking-expiry reaper, a hold,
\* the hold reaper and a reserve, one after the other.
VersionMonotoneWitness ==
  /\ seats["s1"].version >= 5
  /\ seats["s1"].status = "BOOKED"
  /\ \E r \in hist : r.op = "hold" /\ r.outcome = "Held"

\* C14: hold expiry enables booking.  A reserve with a fresh key on a seat whose
\* hold has run out when the call is made succeeds, whether the hold reaper has
\* run, has not run or runs while the reserve is under way.
HoldExpiryEnablesBooking ==
  \A r \in hist :
    (/\ r.op = "reserve" /\ r.seat0 = "LAPSED"
     /\ r.found = "created" /\ ~r.prior
     /\ \A b \in Booked(r.key) : b.id = r.id)
    => r.outcome = "Fresh"

\* C15: one booking per key ever.  No idempotency key has more than one booking
\* row, also when a client calls again with the key of a booking whose
\* idempotency record is gone.
OneBookingPerKey ==
  \A b1, b2 \in bookings : b1.idempotencyKey = b2.idempotencyKey => b1.id = b2.id

\* C15 happens: a reserve with the key of an existing booking, for which no
\* record was found, has reached the insert of its booking and has ended
\* without a second row.
OneBookingPerKeyWitness ==
  \E r \in hist :
    /\ r.op = "reserve" /\ r.found = "created"
    /\ r.outcome = "UniqueViolation"
    /\ \E b \in Booked(r.key) : b.id # r.id

FreshKey(r) ==
  /\ \A q \in hist : q.key = r.key => q.id = r.id
  /\ \A q \in Running : req[q].key # r.key

\* C17: every reserve call with valid input and a key of its own on an
\* existing seat comes to an end, with success or with a failure of the
\* Conflict class and no other, also when the lock runs out during the
\* transaction and when cache commands and commits are late; afterwards the
\* seat has at most one booking row.
ReserveTerminates ==
  /\ [](\A r \in hist :
          (r.op = "reserve" /\ FreshKey(r))
          => /\ r.outcome \in {"Fresh"} \cup ConflictClass
             /\ Cardinality({b \in bookings : b.seatId = r.seat}) <= 1)
  /\ \A p \in {"p1", "p2"} : (req[p].op = "reserve") ~> (pc[p] = "idle")

\* C17 happens: of two reserve calls with keys of their own that were in their
\* transactions while the lock of the first had run out, one has succeeded
\* and the other has failed with a conflict.
ReserveTerminatesWitness ==
  \E a, b \in hist :
    /\ a.op = "reserve" /\ b.op = "reserve" /\ a.key # b.key
    /\ a.id \in b.conc
    /\ a.outcome = "Fresh" /\ b.outcome = "VersionMismatch"

\* A seat that holdSeat refuses: BOOKED, or on a hold that has not run out.
HoldRefused(seat) ==
  \/ seat.status = "BOOKED"
  \/ seat.status = "HOLD" /\ \A t \in seat.holdExpiresAt : t > 0

\* C18: hold.  A hold on a BOOKED seat or on a seat whose hold has not run out
\* fails with a conflict and leaves the seat as it was; otherwise the seat is
\* updated to HOLD with holdExpiresAt one hold TTL from now and its version
\* raised, provided its version is still the one that was read; if it is not,
\* the hold fails with a conflict and leaves the seat as it was.
HoldContract ==
  [][\A p \in Procs :
       LET s == req[p].seat
       IN req[p].op = "hold" =>
          /\ (pc[p] = "hRead" /\ pc'[p] # "hRead") =>
               /\ seats' = seats
               /\ IF HoldRefused(seats[s])
                  THEN /\ pc'[p] = "hRelease"
                       /\ loc'[p].err # {} /\ loc'[p].err \subseteq ConflictClass
                  ELSE /\ pc'[p] = "hUpdate"
                       /\ loc'[p].seatVer = {seats[s].version}
          /\ (pc[p] = "hUpdate" /\ pc'[p] # "hUpdate") =>
               IF seats[s].version \in loc[p].seatVer
               THEN /\ seats'[s] = [status |-> "HOLD", holdExpiresAt |-> {HoldTtl},
                                    version |-> seats[s].version + 1]
                    /\ loc'[p].err = {}
               ELSE /\ seats' = seats
                    /\ loc'[p].err = {"VersionMismatch"}
          /\ (pc[p] = "hRelease" /\ pc'[p] = "idle") =>
               \E e \in hist' \ hist :
                 /\ e.id = req[p].id
                 /\ IF loc[p].err = {} THEN e.outcome = "Held"
                    ELSE e.outcome \in loc[p].err \cap ConflictClass]_vars

\* C18 happens: a hold on an available seat has succeeded, and a later hold
\* on the same seat, made when the first had run out, has failed because the
\* version of the seat had changed since it was read.
HoldContractWitness ==
  \E a, b \in hist :
    /\ a.op = "hold" /\ a.seat0 = "AVAILABLE" /\ a.outcome = "Held"
    /\ b.op = "hold" /\ b.seat0 = "LAPSED" /\ b.outcome = "VersionMismatch"

\* A reply of the release script comes in for process p: in releaseLock, or in
\* the rollback of an acquire attempt.
ReleaseReply(p) ==
  /\ pc[p] \in {"release", "acqRollback"}
  /\ loc[p].pend # {}
  /\ pc'[p] # pc[p] \/ loc'[p].pend # loc[p].pend
  /\ hist' = hist

\* C19: token isolation.  A release with token t, and the rollback of a failed
\* acquire attempt with token t, delete the key only on nodes that store t: an
\* entry with another value keeps its value and its remaining TTL.  A release
\* does not fail, also when nodes have failed.
TokenIsolation ==
  [][\A p \in Procs :
       ReleaseReply(p) =>
         /\ \A n \in Nodes, s \in Seats :
              redis'[n][s] # redis[n][s]
              => /\ redis'[n][s] = {}
                 /\ s = req[p].seat
                 /\ \A e \in redis[n][s] : e.val = Token(p)
         /\ pc[p] = "release" => /\ loc'[p].err = loc[p].err
                                 /\ pc'[p] \in {"release", "return", "idemFinal"}]_vars

\* C19 happens: a release has had all its replies while a node had failed, the
\* body's result is about to be returned, and a reachable node stores the
\* token of another call.
TokenIsolationWitness ==
  \E p \in Procs :
    /\ pc[p] = "return" /\ loc[p].res # {} /\ loc[p].err = {}
    /\ down # {}
    /\ \E n \in clients \ down : \E e \in redis[n][req[p].seat] : e.val # Token(p)

\* A reply of the extend script has come in from node n.
ExtendReply(n) == n \in extRun.pend /\ n \notin extRun'.pend

\* C20: extend.  extendLock returns true exactly if at least floor(N/2)+1 of
\* the N nodes stored the token under the key and had the TTL reset; it creates
\* no entry on a node without the key and changes no entry with another value.
ExtendIffQuorum ==
  /\ [](extRun.pc = "done"
        => (extRun.result = {"true"}
            <=> Cardinality(extRun.ones) >= (Cardinality(clients) \div 2) + 1))
  /\ [][\A n \in Nodes : ExtendReply(n) =>
          \A m \in Nodes, s \in Seats :
            /\ redis[m][s] = {} => redis'[m][s] = {}
            /\ (\A e \in redis[m][s] : e.val # extRun.tok) => redis'[m][s] = redis[m][s]
            /\ redis'[m][s] # redis[m][s] => m = n /\ m \in extRun'.ones]_vars

\* acquireLock returns to withLock: the lock is reported as held.
ReportedHeld(p) == pc[p] = "acquire" /\ pc'[p] \in {"txRead", "body"}

\* C21: acquire reports the lock as held only when at least floor(N/2)+1
\* nodes accepted the SET NX and the validity that remains once the replies are
\* in, ttl - elapsed - ttl * driftFactor, is greater than 0; with a quorum and
\* no validity left the attempt is rolled back.
HeldOnlyWhileValid ==
  [][\A p \in Procs :
       /\ ReportedHeld(p)
           => /\ Cardinality(loc[p].got) >= (Cardinality(clients) \div 2) + 1
              /\ LockTtl - loc[p].elapsed - Drift(LockTtl) > 0
       /\ (/\ pc[p] = "acquire" /\ pc'[p] # "acquire"
           /\ Cardinality(loc[p].got) >= (Cardinality(clients) \div 2) + 1
           /\ LockTtl - loc[p].elapsed - Drift(LockTtl) <= 0)
          => pc'[p] = "acqRollback"]_vars

\* Process p is inside acquireLock.
Acquiring(p) == pc[p] \in {"acquire", "acqRollback", "acqWait"}

\* C22: bounded acquisition.  An acquire makes at most retryCount attempts;
\* after each failed attempt its own entries are deleted on every node; after
\* the last one it fails with LockUnavailable, and no node stores the key with
\* its token; it always comes to an end.
BoundedAcquire ==
  /\ [](\A p \in Procs : loc[p].attempt <= RetryCount)
  /\ [][\A p \in Procs :
          (pc[p] = "acqRollback" /\ pc'[p] # "acqRollback")
          => /\ \A n \in clients : \A e \in redis'[n][req[p].seat] : e.val # Token(p)
             /\ IF loc'[p].attempt < RetryCount
                THEN pc'[p] = "acqWait" /\ loc'[p].err = {}
                ELSE pc'[p] = "return" /\ loc'[p].err = {"LockUnavailable"}]_vars
  /\ \A p \in {"p1", "p2"} : Acquiring(p) ~> ~Acquiring(p)

\* C22 happens: a call has failed with LockUnavailable beside a call that was
\* running when it started and that has returned the result of its body.
BoundedAcquireWitness ==
  \E a, b \in hist :
    /\ a.op = "lock" /\ a.outcome = "Returned"
    /\ b.op = "lock" /\ b.outcome = "LockUnavailable" /\ a.id \in b.conc
    /\ "LockUnavailable" \in ConflictClass

\* A step of the call of process p.
StepOf(p) == pc'[p] # pc[p] \/ loc'[p].pend # loc[p].pend

\* The reserve of process p has been refused for the state of its seat.
Refused(p) == req[p].op = "reserve" /\ loc[p].err \cap {"AlreadyBooked", "OnHold"} # {}

\* C23: reserve rejection leaves state unchanged.  A reserve that reads its
\* seat as BOOKED fails with AlreadyBooked, one that reads it as HOLD with
\* holdExpiresAt in the future fails with OnHold; the call inserts no booking
\* row and leaves status, version and holdExpiresAt of the seat as they are.
RejectionChangesNothing ==
  /\ [][\A p \in Procs :
          LET seat == seats[req[p].seat]
          IN /\ (pc[p] = "txRead" /\ pc'[p] # "txRead" /\ seat.status = "BOOKED")
                => loc'[p].err = {"AlreadyBooked"}
             /\ (/\ pc[p] = "txRead" /\ pc'[p] # "txRead" /\ seat.status = "HOLD"
                 /\ \E t \in seat.holdExpiresAt : t > 0)
                => loc'[p].err = {"OnHold"}
             /\ (StepOf(p) /\ (Refused(p) \/ (pc[p] = "txRead" /\ SeatRejection(seat) # {})))
                => /\ seats' = seats
                   /\ bookings' = bookings
                   /\ loc'[p].txBooking = {} /\ loc'[p].txSeat = {}
                   /\ pc'[p] = "idle"
                      => \E e \in hist' \ hist : e.id = req[p].id /\ e.outcome \in loc[p].err]_vars
  /\ [](\A r \in hist :
          (r.op = "reserve" /\ r.outcome \in {"AlreadyBooked", "OnHold"})
          => \A b \in bookings : b.id # r.id)

\* C23 happens: a reserve on a seat on hold has failed with OnHold; the seat is
\* as the hold left it and there is no booking.
RejectionChangesNothingWitness ==
  /\ \E r \in hist : r.op = "reserve" /\ r.outcome = "OnHold"
  /\ \E r \in hist : r.op = "hold" /\ r.outcome = "Held"
  /\ seats["s1"].status = "HOLD" /\ seats["s1"].version = 1
  /\ bookings = {}

\* The booking rows that a step makes visible, and the seats it shows as BOOKED.
NewBookings == {b \in bookings' : \A old \in bookings : old.id # b.id}
NewlyBooked == {s \in Seats : seats'[s].status = "BOOKED" /\ seats[s].status # "BOOKED"}

\* C24: reserve is atomic.  A booking row and the update of its seat to BOOKED
\* become visible in the same step or not at all; a guarded update that matches
\* no row makes the call fail with VersionMismatch and discards the booking
\* inserted in its transaction; no booking row comes from a failed reserve, and
\* a reserve that succeeded has its row.
ReserveAtomic ==
  /\ [][/\ \A b \in NewBookings : b.seatId \in NewlyBooked
        /\ \A s \in NewlyBooked :
             /\ \E b \in NewBookings : b.seatId = s
             /\ seats'[s].version = seats[s].version + 1
        /\ \A p \in Procs :
             (/\ pc[p] = "txUpdate" /\ pc'[p] # "txUpdate"
              /\ seats[req[p].seat].version \notin loc[p].seatVer)
             => /\ loc'[p].err = {"VersionMismatch"}
                /\ loc'[p].txBooking = {} /\ loc'[p].txSeat = {}
                /\ bookings' = bookings /\ seats' = seats]_vars
  /\ [](\A r \in hist :
          r.op = "reserve"
          => (r.outcome = "Fresh" <=> \E b \in bookings : b.id = r.id))

\* C24 happens: a reserve has got as far as its guarded update, which matched
\* no row, and has failed with VersionMismatch; the booking of the seat is that
\* of another call.
ReserveAtomicWitness ==
  \E r \in hist :
    /\ r.op = "reserve" /\ r.outcome = "VersionMismatch"
    /\ \E b \in bookings : b.seatId = r.seat /\ b.id # r.id
    /\ seats[r.seat].status = "BOOKED"

\* C25: a reserve that holds its lock, unexpired and on a quorum of the nodes,
\* for the whole of its transaction does not fail with VersionMismatch: the
\* guarded update matches no row only if the lock was lost or had expired.
MismatchOnlyWithoutLock ==
  [][\A p \in Procs :
       (/\ req[p].op = "reserve"
        /\ pc[p] = "txUpdate" /\ pc'[p] # "txUpdate"
        /\ loc'[p].err = {"VersionMismatch"})
       => ~HoldsQuorum(p)]_vars

\* Two finished checkOrCreate calls with the same key, the second started while
\* the first was running, the key not used by any call before them.
RacedOnFreshKey(a, b) ==
  /\ a.op = "reserve" /\ b.op = "reserve"
  /\ a.key = b.key /\ a.id \in b.conc
  /\ \A r \in hist : r.key = a.key => r.id >= a.id

\* C26: idempotency creation race.  Of the callers that call checkOrCreate
\* concurrently with the same fresh key exactly one creates the record and runs
\* work; each other one ends Replayed, PayloadMismatch, RequestInFlight or
\* PreviousFailure, none with the unique-constraint failure of the store.
CreationRaceBranches ==
  \A a, b \in hist : RacedOnFreshKey(a, b) =>
    /\ Cardinality({r \in {a, b} : r.found = "created"}) = 1
    /\ workCount[a.key] = 1
    /\ \A r \in {a, b} :
         /\ r.outcome # "UniqueViolation"
         /\ r.found # "created"
            => r.outcome \in {"Replayed", "PayloadMismatch", "InFlight", "PreviousFailure"}

\* The hold of a seat has reached its holdExpiresAt.
HoldExpired(seat) == seat.status = "HOLD" /\ \E t \in seat.holdExpiresAt : t <= 0

\* The step is the bulk update of the hold reaper: no call and no run of the
\* booking-expiry reaper moves.
HoldReaperStep == pc' = pc /\ sweep' = sweep

\* The step is the commit of a run of the booking-expiry reaper.
ExpiryReaperStep == \E r \in Sweepers : sweep[r].pc = "commit" /\ sweep'[r].pc = "idle"

\* C27: seat transitions.  Every change of the status of a seat is one of
\* AVAILABLE -> HOLD, HOLD -> AVAILABLE by the hold reaper on an expired hold,
\* AVAILABLE -> BOOKED, expired HOLD -> BOOKED, and BOOKED -> AVAILABLE by the
\* booking-expiry reaper; BOOKED never becomes HOLD and a hold that has not
\* expired never becomes BOOKED.
SeatTransitions ==
  [][\A s \in Seats :
       LET from == seats[s].status
           to == seats'[s].status
       IN from # to =>
            \/ from = "AVAILABLE" /\ to = "HOLD"
            \/ from = "HOLD" /\ to = "AVAILABLE" /\ HoldExpired(seats[s]) /\ HoldReaperStep
            \/ from = "AVAILABLE" /\ to = "BOOKED"
            \/ from = "HOLD" /\ to = "BOOKED" /\ HoldExpired(seats[s])
            \/ from = "BOOKED" /\ to = "AVAILABLE" /\ ExpiryReaperStep]_vars

\* C27 happens: the seat, BOOKED at first, was freed by the booking-expiry
\* reaper, put on hold, and booked by a reserve once the hold had expired.
SeatTransitionsWitness ==
  /\ \E b \in bookings : b.id = 0 /\ b.status = "EXPIRED"
  /\ \E r \in hist : r.op = "hold" /\ r.outcome = "Held"
  /\ \E r \in hist : r.op = "reserve" /\ r.seat0 = "LAPSED" /\ r.outcome = "Fresh"
  /\ seats["s1"].status = "BOOKED"

\* C28: a failed lock extension is never fatal.  When an extension issued by
\* the timer of withLock does not reach quorum, or a cache node fails during
\* the extension, the body keeps running and the withLock call ends with the
\* result of the body or its failure, after the release: no withLock call ends
\* by the stop of its process.
ExtensionNeverFatal ==
  \A r \in hist :
    r.op = "lock" => /\ r.outcome # "Crashed"
                     /\ Acquired(r) => \A m \in inflight : m.op = "EXT" => m.tok # r.id

\* The step of the primary flow a reserve call stands at: 1 record to create,
\* 2 lock to acquire, 3 seat/booking transaction, 4 release, 5 finalization,
\* 6 over.
FlowStep(at) ==
  IF at = "idemCreate" THEN 1
  ELSE IF at \in {"acquire", "acqRollback", "acqWait"} THEN 2
  ELSE IF at \in {"txRead", "txInsert", "txUpdate", "txCommit"} THEN 3
  ELSE IF at = "release" THEN 4
  ELSE IF at = "idemFinal" THEN 5
  ELSE 6

\* The seat/booking transaction of process p has ended: nothing of it is pending.
TransactionEnded(l, p) ==
  l.txBooking = {} /\ l.txSeat = {} /\ \A s \in Seats : p \notin rowLock'[s]

\* C29: order of the primary flow.  For every reserve with a fresh key the
\* steps occur in the order: idempotency record created, lock acquired,
\* seat/booking transaction committed or rolled back, lock released, record
\* finalized.  The lock is never released before the transaction has ended,
\* and the record is never finalized SUCCESS before the booking is committed.
PrimaryFlowOrder ==
  [][\A p \in Procs :
       (req[p].op = "reserve" /\ pc'[p] # pc[p] /\ ~(\E r \in hist' \ hist : r.outcome = "Crashed"))
       => LET from == FlowStep(pc[p])
              to == FlowStep(pc'[p])
              k == req[p].key
          IN /\ to >= from
             /\ (to \in 2..5 /\ from = 1) => to = 2 /\ loc'[p].rec # {}
             /\ (to = 3 /\ from # 3) => from = 2 /\ Cardinality(loc[p].got) >= Quorum(clients)
             /\ (from = 3 /\ to # 3) => to = 4 /\ TransactionEnded(loc'[p], p)
             /\ (to = 4 /\ from # 4) => from = 3
             /\ from = 3 => redis' = redis
             /\ (to = 5 /\ from # 5) =>
                   \/ from = 2 /\ loc'[p].err # {}
                   \/ /\ from = 4
                      /\ loc'[p].pend = {}
                      /\ \A n \in clients \ down : \A e \in redis'[n][req[p].seat] : e.val # Token(p)
             /\ (from = 5 /\ \E rec \in idem'[k] : rec.state = "SUCCESS")
                   => \E b \in bookings : b.idempotencyKey = k /\ b.seatId = req[p].seat
             /\ (\E rec \in idem'[k] : rec.state = "SUCCESS") /\ idem'[k] # idem[k] => from = 5]_vars

\* C29 happens: a reserve with a fresh key went through the five steps and
\* another one, whose seat/booking transaction was rolled back, through the
\* release and the finalization.
PrimaryFlowOrderWitness ==
  /\ \E r \in hist : r.op = "reserve" /\ r.found = "created" /\ r.outcome = "Fresh"
  /\ \E r \in hist : r.op = "reserve" /\ r.found = "created" /\ r.outcome = "VersionMismatch"

\* The call with this token was abandoned.
Abandoned(tok) == \E r \in hist : r.id = tok /\ r.outcome = "Abandoned"

\* The entries stored under this token.
EntriesOf(tok) ==
  {<<n, s>> \in Nodes \X Seats : \E e \in redis[n][s] : e.val = tok}

HoldReturnsHold ==
  \A r \in hist :
    (r.op = "hold" /\ r.outcome = "Held")
    => r.resp # {} /\ \A snapshot \in r.resp : snapshot.status = "HOLD"

\* C32: seat well-formedness.  In every reachable state the holdExpiresAt of a
\* seat is non-null if and only if its status is HOLD: reserve, the hold
\* reaper and the booking-expiry reaper never leave a seat that is not on HOLD
\* with a holdExpiresAt, and hold never leaves a seat on HOLD without one.
SeatWellFormed ==
  \A s \in Seats : seats[s].holdExpiresAt # {} <=> seats[s].status = "HOLD"

\* C32 happens: the booking-expiry reaper freed the seat, a hold took it, and
\* after the hold had run out either the hold reaper released it or a reserve
\* booked it.
SeatWellFormedWitness ==
  /\ \E b \in bookings : b.id = 0 /\ b.status = "EXPIRED"
  /\ \E r \in hist : r.op = "hold" /\ r.outcome = "Held"
  /\ seats["s1"].version = 4
  /\ seats["s1"].status \in {"AVAILABLE", "BOOKED"}

\* The fields of a record that its final state freezes.
Outcome(rec) == <<rec.state, rec.responseData, rec.statusCode>>

\* C33: record immutability.  Once an idempotency record is SUCCESS or FAILED,
\* no checkOrCreate call changes its state, responseData or statusCode until
\* the cleanup reaper deletes it, and the requestHash of a record is never
\* changed after the record is created.
RecordImmutable ==
  [][\A k \in Keys :
       idem[k] # {} =>
         \/ idem'[k] = {} /\ k \in reaped' /\ pc' = pc
         \/ /\ idem'[k] # {}
            /\ The(idem'[k]).requestHash = The(idem[k]).requestHash
            /\ The(idem[k]).state \in {"SUCCESS", "FAILED"}
                 => Outcome(The(idem'[k])) = Outcome(The(idem[k]))]_vars

\* C33 happens: a call met the FAILED record of its key, which is still there,
\* and the call of another key has left a SUCCESS record.
RecordImmutableWitness ==
  /\ \E r \in hist : r.key = "k1" /\ r.outcome = "PreviousFailure"
  /\ \E rec \in idem["k1"] : rec.state = "FAILED"
  /\ \E k \in Keys : \E rec \in idem[k] : rec.state = "SUCCESS"

\* C34: the hold reaper changes only seats that are in status HOLD with
\* holdExpiresAt strictly before the time of the sweep: each such seat becomes
\* AVAILABLE with holdExpiresAt cleared and version + 1; seats that are
\* AVAILABLE, BOOKED or on a hold that has not expired, and all bookings and
\* idempotency records, are left unchanged.
HoldReaperEffect ==
  [][releaseExpiredHolds
       => /\ \A s \in Seats :
               IF /\ seats[s].status = "HOLD"
                  /\ \E at \in seats[s].holdExpiresAt : at < 0
               THEN seats'[s] = [status |-> "AVAILABLE", holdExpiresAt |-> {},
                                 version |-> seats[s].version + 1]
               ELSE seats'[s] = seats[s]
          /\ bookings' = bookings
          /\ idem' = idem]_vars

\* C34 happens: the hold reaper has released the hold of the only call made,
\* once it had run out.
HoldReaperEffectWitness ==
  /\ calls = 1
  /\ \E r \in hist : r.op = "hold" /\ r.outcome = "Held"
  /\ seats["s1"] = [status |-> "AVAILABLE", holdExpiresAt |-> {}, version |-> 2]

\* The tokens stored as the value of the key of seat s on a quorum of nodes.
QuorumTokens(s) ==
  {tok \in 1..(MaxCalls + 1) :
     Cardinality({n \in clients : \E e \in redis[n][s] : e.val = tok}) >= Quorum(clients)}

ConfirmedOn(s) == {b \in bookings : b.seatId = s /\ b.status = "CONFIRMED"}

CachedSuccessHasBooking ==
  \A k \in Keys : \A rec \in idem[k] :
    rec.state = "SUCCESS"
    => /\ rec.responseData # {} /\ rec.statusCode = {201}
       /\ \E b \in bookings :
            /\ b.idempotencyKey = k
            /\ b.id = JsonParse(The(rec.responseData)).id

\* C38 happens: a SUCCESS record was replayed to a later call of its key.
CachedSuccessHasBookingWitness ==
  /\ \E r \in hist : r.outcome = "Replayed"
                      /\ \E rec \in idem[r.key] : rec.state = "SUCCESS"
  /\ Cardinality(bookings) = 1

\* A hold and a reserve on the same seat, one started while the other was
\* running, the first to start having found the seat free.
HoldRacedReserve(h, r) ==
  /\ h.op = "hold" /\ r.op = "reserve" /\ h.seat = r.seat
  /\ h.id \in r.conc \/ r.id \in h.conc
  /\ (IF h.id < r.id THEN h.seat0 ELSE r.seat0) \in {"AVAILABLE", "LAPSED"}

\* The seat is free to take: AVAILABLE, or on a hold that has run out.
Free(seat) == seat.status = "AVAILABLE" \/ HoldExpired(seat)

\* The hold of process p takes the seat: its guarded update matches.
HoldWins(p) == req[p].op = "hold" /\ pc[p] = "hUpdate" /\ pc'[p] = "hReread"

\* The reserve of process q takes the seat: its transaction commits.
ReserveWins(q) == req[q].op = "reserve" /\ pc[q] = "txCommit" /\ pc'[q] = "release"

\* C39 as stated: when a hold and a reserve run concurrently on the same seat
\* starting from AVAILABLE or from an expired hold, at most one of them
\* succeeds.
HoldVersusReserve ==
  \A h, r \in hist :
    HoldRacedReserve(h, r) => ~(h.outcome = "Held" /\ r.outcome = "Fresh")

\* C39 as the code has it: a hold or a reserve takes the seat only when it is
\* free, the committed seat is then the winner's (HOLD with no new booking, or
\* BOOKED with exactly one CONFIRMED booking), and the version guard of the
\* other, if it has read the seat, can no longer match; both succeed only
\* when the hold has run out before the reserve takes the seat, which is then
\* BOOKED with exactly one CONFIRMED booking.
HoldOrReserveWins ==
  /\ [][\A p, q \in Procs :
          (req[p].op = "hold" /\ req[q].op = "reserve" /\ req[p].seat = req[q].seat)
          => LET s == req[p].seat
             IN /\ HoldWins(p) =>
                     /\ Free(seats[s])
                     /\ seats'[s].status = "HOLD" /\ bookings' = bookings
                     /\ pc[q] # "txCommit"
                     /\ seats'[s].version \notin loc[q].seatVer
                /\ ReserveWins(q) =>
                     /\ Free(seats[s])
                     /\ seats'[s].status = "BOOKED"
                     /\ bookings' \ bookings = {NewBooking(req[q])}
                     /\ ConfirmedOn(s)' = {NewBooking(req[q])}
                     /\ seats'[s].version \notin loc[p].seatVer]_vars
  /\ [](\A h, r \in hist :
          (HoldRacedReserve(h, r) /\ h.outcome = "Held" /\ r.outcome = "Fresh")
          => /\ seats[h.seat].status = "BOOKED"
             /\ Cardinality(ConfirmedOn(h.seat)) = 1)

\* C39 happens: a hold and a reserve raced on a free seat, both read it, the
\* hold took it and the reserve failed on its version guard.
HoldOrReserveWinsWitness ==
  \E h, r \in hist :
    /\ HoldRacedReserve(h, r)
    /\ h.outcome = "Held" /\ r.outcome = "VersionMismatch"
    /\ bookings = {}

\* The bookings created by reserve: the rows of calls, not those of the table
\* at the start.
ByReserve == {b \in bookings : b.id >= 1}

====
